---- MODULE Spec2Model ----
(***************************************************************************)
(* ros_gz_bridge/src/bridge_config.cpp: the bridge configuration loader.   *)
(*                                                                         *)
(* parseEntry turns one YAML node into a BridgeConfig, or into nullopt     *)
(* with one logged diagnostic, or leaves by a yaml-cpp exception raised    *)
(* by a conversion (Node::as<T>).  readFromYaml loads a document, requires *)
(* a sequence at the top level and collects the values parseEntry returns. *)
(* readFromYamlFile and readFromYamlString wrap a file or a string into a  *)
(* stream and call readFromYaml.                                           *)
(***************************************************************************)
EXTENDS Naturals, Sequences, FiniteSets, TLC

VARIABLES
    source,       \* the input the caller holds: the text of a file, a string or a stream
    entry_point,  \* the function the caller called
    stream,       \* the std::istream handed to readFromYaml
    yaml_node,    \* readFromYaml's yaml_node, the loaded document
    it,           \* position of the range-for of readFromYaml in yaml_node
    ret,          \* readFromYaml's ret, the vector of BridgeConfig
    parsed,       \* history: what parseEntry did on each element visited so far
    log,          \* the RCLCPP_ERROR lines emitted so far
    exception,    \* the exception that left readFromYaml, "none" if none
    pc            \* where the call is

vars == <<source, entry_point, stream, yaml_node, it, ret, parsed, log, exception, pc>>

-----------------------------------------------------------------------------
(* Bounds of the model *)

\* longest top-level sequence (or map) of a document
MaxLen == 3

\* largest queue size written in an entry
MaxQueue == 1

-----------------------------------------------------------------------------
(* YAML tag string constants, bridge_config.cpp:28-36 *)

kTopicName == "topic_name"

kRosTopicName == "ros_topic_name"

kGzTopicName == "gz_topic_name"

kRosTypeName == "ros_type_name"

kGzTypeName == "gz_type_name"

kDirection == "direction"

kPublisherQueue == "publisher_queue"

kSubscriberQueue == "subscriber_queue"

kLazy == "lazy"

(* Comparison strings for bridge directions, bridge_config.cpp:39-41 *)

kBidirectional == "BIDIRECTIONAL"

kGzToRos == "GZ_TO_ROS"

kRosToGz == "ROS_TO_GZ"

-----------------------------------------------------------------------------
(* YAML nodes as the code sees them through yaml-cpp.                      *)
(* A node has a type; a scalar has its text; a map is looked up by key and *)
(* the lookup of a key the map does not hold (const operator[]) gives an   *)
(* undefined node, on which operator bool is false and as<T>() throws      *)
(* InvalidNode.                                                            *)

Undefined == [type |-> "Undefined", scalar |-> ""]

Scalar(text) == [type |-> "Scalar", scalar |-> text]

\* a value that is neither a scalar nor null: a nested sequence
NestedSequence == [type |-> "Sequence", scalar |-> ""]

\* Node::operator bool, i.e. IsDefined()
IsDefined(node) == node.type # "Undefined"

\* Node::IsMap()
IsMap(node) == node.type = "Map"

\* variant of IsSequence: any container passes
IsSequence_anyContainer(node) == node.type \in {"Sequence", "Map"}

\* Node::IsSequence()
IsSequence(node) == node.type = "Sequence"

\* yaml_node[key] on the const node
Get(node, key) == IF IsMap(node) THEN node.at[key] ELSE Undefined

(* Conversions.  Each gives [ok, value, what]: ok is FALSE when as<T>()    *)
(* throws, and what names the exception.                                   *)

Converted(v) == [ok |-> TRUE, value |-> v, what |-> "none"]

Throws(what) == [ok |-> FALSE, value |-> "", what |-> what]

\* Node::as<std::string>(): the text of a scalar
AsString(node) ==
    IF ~IsDefined(node) THEN Throws("InvalidNode")
    ELSE IF node.type = "Scalar" THEN Converted(node.scalar)
    ELSE Throws("BadConversion")

\* the decimal numerals as<size_t>() reads in this model
Numerals == {ToString(n) : n \in 0..MaxQueue}

\* Node::as<size_t>(): the number a scalar of decimal digits writes; a sign,
\* a letter or an empty text is a bad conversion
AsSizeT(node) ==
    IF ~IsDefined(node) THEN Throws("InvalidNode")
    ELSE IF node.type = "Scalar" /\ node.scalar \in Numerals
         THEN Converted(CHOOSE n \in 0..MaxQueue : ToString(n) = node.scalar)
    ELSE Throws("BadConversion")

\* Node::as<bool>(): yaml-cpp's names of the two truth values
AsBool(node) ==
    IF ~IsDefined(node) THEN Throws("InvalidNode")
    ELSE IF node.type = "Scalar" /\ node.scalar \in {"true", "yes", "on", "y"}
         THEN Converted(TRUE)
    ELSE IF node.type = "Scalar" /\ node.scalar \in {"false", "no", "off", "n"}
         THEN Converted(FALSE)
    ELSE Throws("BadConversion")

-----------------------------------------------------------------------------
(* BridgeConfig, declared in ros_gz_bridge/bridge_config.hpp.  Its member  *)
(* initialisers give the value parseEntry starts from (BridgeConfig ret).  *)

kDefaultPublisherQueue == 10

kDefaultSubscriberQueue == 10

DefaultBridgeConfig ==
    [ros_topic_name |-> "", gz_topic_name |-> "",
     ros_type_name |-> "", gz_type_name |-> "",
     direction |-> "BIDIRECTIONAL",
     publisher_queue_size |-> kDefaultPublisherQueue,
     subscriber_queue_size |-> kDefaultSubscriberQueue,
     is_lazy |-> FALSE]

-----------------------------------------------------------------------------
(* parseEntry, bridge_config.cpp:46-132 *)

\* the diagnostics of parseEntry, as RCLCPP_ERROR formats them
MsgNotMap == "Could not parse entry: entry must be a YAML map"

MsgTopicRos == "Could not parse entry: topic_name and ros_topic_name are mutually exclusive"

MsgTopicGz == "Could not parse entry: topic_name and gz_topic_name are mutually exclusive"

MsgTypes == "Could not parse entry: both ros_type_name and gz_type_name must be set"

\* (the line also echoes the text refused)
MsgDirection == "Could not parse entry: invalid direction"

\* variant: the type names are checked before the exclusions
Validate_typesFirst(node) ==
    IF ~IsMap(node) THEN MsgNotMap
    ELSE IF ~IsDefined(Get(node, kRosTypeName)) \/ ~IsDefined(Get(node, kGzTypeName))
         THEN MsgTypes
    ELSE IF IsDefined(Get(node, kTopicName)) /\ IsDefined(Get(node, kRosTopicName))
         THEN MsgTopicRos
    ELSE IF IsDefined(Get(node, kTopicName)) /\ IsDefined(Get(node, kGzTopicName))
         THEN MsgTopicGz
    ELSE "ok"

\* variant: the second exclusion tests ros_topic_name again
Validate_rosTwice(node) ==
    IF ~IsMap(node) THEN MsgNotMap
    ELSE IF IsDefined(Get(node, kTopicName)) /\ IsDefined(Get(node, kRosTopicName))
         THEN MsgTopicRos
    ELSE IF IsDefined(Get(node, kTopicName)) /\ IsDefined(Get(node, kRosTopicName))
         THEN MsgTopicGz
    ELSE IF ~IsDefined(Get(node, kRosTypeName)) \/ ~IsDefined(Get(node, kGzTypeName))
         THEN MsgTypes
    ELSE "ok"

\* variant: the type check fails only when both type names are missing
Validate_bothMissing(node) ==
    IF ~IsMap(node) THEN MsgNotMap
    ELSE IF IsDefined(Get(node, kTopicName)) /\ IsDefined(Get(node, kRosTopicName))
         THEN MsgTopicRos
    ELSE IF IsDefined(Get(node, kTopicName)) /\ IsDefined(Get(node, kGzTopicName))
         THEN MsgTopicGz
    ELSE IF ~IsDefined(Get(node, kRosTypeName)) /\ ~IsDefined(Get(node, kGzTypeName))
         THEN MsgTypes
    ELSE "ok"

\* the four early returns of lines 50-76: the diagnostic of the first check
\* that fails, "ok" when none does
Validate(node) ==
    IF ~IsMap(node) THEN MsgNotMap
    ELSE IF IsDefined(Get(node, kTopicName)) /\ IsDefined(Get(node, kRosTopicName))
         THEN MsgTopicRos
    ELSE IF IsDefined(Get(node, kTopicName)) /\ IsDefined(Get(node, kGzTopicName))
         THEN MsgTopicGz
    ELSE IF ~IsDefined(Get(node, kRosTypeName)) \/ ~IsDefined(Get(node, kGzTypeName))
         THEN MsgTypes
    ELSE "ok"

\* variant: an unrecognised token leaves the default in place
ResolveDirection_fallback(node) ==
    LET dirStr == AsString(Get(node, kDirection)) IN
    IF ~IsDefined(Get(node, kDirection))
    THEN [outcome |-> "ok", direction |-> "BIDIRECTIONAL", what |-> "none"]
    ELSE IF ~dirStr.ok
    THEN [outcome |-> "throw", direction |-> "BIDIRECTIONAL", what |-> dirStr.what]
    ELSE IF dirStr.value = kGzToRos
    THEN [outcome |-> "ok", direction |-> "GZ_TO_ROS", what |-> "none"]
    ELSE IF dirStr.value = kRosToGz
    THEN [outcome |-> "ok", direction |-> "ROS_TO_GZ", what |-> "none"]
    ELSE [outcome |-> "ok", direction |-> "BIDIRECTIONAL", what |-> "none"]

\* lines 80-97: the direction of the entry
ResolveDirection(node) ==
    LET dirStr == AsString(Get(node, kDirection)) IN
    IF ~IsDefined(Get(node, kDirection))
    THEN [outcome |-> "ok", direction |-> "BIDIRECTIONAL", what |-> "none"]
    ELSE IF ~dirStr.ok
    THEN [outcome |-> "throw", direction |-> "BIDIRECTIONAL", what |-> dirStr.what]
    ELSE IF dirStr.value = kBidirectional
    THEN [outcome |-> "ok", direction |-> "BIDIRECTIONAL", what |-> "none"]
    ELSE IF dirStr.value = kGzToRos
    THEN [outcome |-> "ok", direction |-> "GZ_TO_ROS", what |-> "none"]
    ELSE IF dirStr.value = kRosToGz
    THEN [outcome |-> "ok", direction |-> "ROS_TO_GZ", what |-> "none"]
    ELSE [outcome |-> "nullopt", direction |-> "BIDIRECTIONAL", what |-> "none"]

\* the two assignments of one branch of lines 100-116: gz_topic_name first
TopicNames(gzNode, rosNode) ==
    LET gz == AsString(gzNode)
        ros == AsString(rosNode)
    IN  IF ~gz.ok THEN [ok |-> FALSE, ros_topic_name |-> "", gz_topic_name |-> "", what |-> gz.what]
        ELSE IF ~ros.ok THEN [ok |-> FALSE, ros_topic_name |-> "", gz_topic_name |-> "", what |-> ros.what]
        ELSE [ok |-> TRUE, ros_topic_name |-> ros.value, gz_topic_name |-> gz.value, what |-> "none"]

\* variant: the last branch reads with a fallback, as<std::string>("")
ResolveTopicNames_emptyFallback(node) ==
    IF IsDefined(Get(node, kTopicName))
    THEN TopicNames(Get(node, kTopicName), Get(node, kTopicName))
    ELSE IF IsDefined(Get(node, kRosTopicName)) /\ ~IsDefined(Get(node, kGzTopicName))
    THEN TopicNames(Get(node, kRosTopicName), Get(node, kRosTopicName))
    ELSE IF IsDefined(Get(node, kGzTopicName)) /\ ~IsDefined(Get(node, kRosTopicName))
    THEN TopicNames(Get(node, kGzTopicName), Get(node, kGzTopicName))
    ELSE IF IsDefined(Get(node, kGzTopicName))
    THEN TopicNames(Get(node, kGzTopicName), Get(node, kRosTopicName))
    ELSE [ok |-> TRUE, ros_topic_name |-> "", gz_topic_name |-> "", what |-> "none"]

\* variant: the last branch assigns the two names crosswise
ResolveTopicNames_swapped(node) ==
    IF IsDefined(Get(node, kTopicName))
    THEN TopicNames(Get(node, kTopicName), Get(node, kTopicName))
    ELSE IF IsDefined(Get(node, kRosTopicName)) /\ ~IsDefined(Get(node, kGzTopicName))
    THEN TopicNames(Get(node, kRosTopicName), Get(node, kRosTopicName))
    ELSE IF IsDefined(Get(node, kGzTopicName)) /\ ~IsDefined(Get(node, kRosTopicName))
    THEN TopicNames(Get(node, kGzTopicName), Get(node, kGzTopicName))
    ELSE TopicNames(Get(node, kRosTopicName), Get(node, kGzTopicName))

\* lines 100-116: the two topic names of the entry
ResolveTopicNames(node) ==
    IF IsDefined(Get(node, kTopicName))
    THEN TopicNames(Get(node, kTopicName), Get(node, kTopicName))
    ELSE IF IsDefined(Get(node, kRosTopicName)) /\ ~IsDefined(Get(node, kGzTopicName))
    THEN TopicNames(Get(node, kRosTopicName), Get(node, kRosTopicName))
    ELSE IF IsDefined(Get(node, kGzTopicName)) /\ ~IsDefined(Get(node, kRosTopicName))
    THEN TopicNames(Get(node, kGzTopicName), Get(node, kGzTopicName))
    ELSE TopicNames(Get(node, kGzTopicName), Get(node, kRosTopicName))

\* lines 118-119: the two type names
ReadTypeNames(node) ==
    LET gz == AsString(Get(node, kGzTypeName))
        ros == AsString(Get(node, kRosTypeName))
    IN  IF ~gz.ok THEN [ok |-> FALSE, ros_type_name |-> "", gz_type_name |-> "", what |-> gz.what]
        ELSE IF ~ros.ok THEN [ok |-> FALSE, ros_type_name |-> "", gz_type_name |-> "", what |-> ros.what]
        ELSE [ok |-> TRUE, ros_type_name |-> ros.value, gz_type_name |-> gz.value, what |-> "none"]

\* one optional member: the converted value of a key that is there, the
\* member's present value otherwise
Optional(node, conv, present) ==
    IF IsDefined(node) THEN conv ELSE Converted(present)

\* variant: the two queue keys are read into each other's member
ReadOptional_crossed(node, cfg) ==
    LET pq == Optional(Get(node, kSubscriberQueue), AsSizeT(Get(node, kSubscriberQueue)),
                       cfg.publisher_queue_size)
        sq == Optional(Get(node, kPublisherQueue), AsSizeT(Get(node, kPublisherQueue)),
                       cfg.subscriber_queue_size)
        lazy == Optional(Get(node, kLazy), AsBool(Get(node, kLazy)), cfg.is_lazy)
    IN  IF ~pq.ok THEN [ok |-> FALSE, value |-> cfg, what |-> pq.what]
        ELSE IF ~sq.ok THEN [ok |-> FALSE, value |-> cfg, what |-> sq.what]
        ELSE IF ~lazy.ok THEN [ok |-> FALSE, value |-> cfg, what |-> lazy.what]
        ELSE [ok |-> TRUE,
              value |-> [cfg EXCEPT !.publisher_queue_size = pq.value,
                                    !.subscriber_queue_size = sq.value,
                                    !.is_lazy = lazy.value],
              what |-> "none"]

\* lines 121-129: publisher_queue, subscriber_queue and lazy, in this order
ReadOptional(node, cfg) ==
    LET pq == Optional(Get(node, kPublisherQueue), AsSizeT(Get(node, kPublisherQueue)),
                       cfg.publisher_queue_size)
        sq == Optional(Get(node, kSubscriberQueue), AsSizeT(Get(node, kSubscriberQueue)),
                       cfg.subscriber_queue_size)
        lazy == Optional(Get(node, kLazy), AsBool(Get(node, kLazy)), cfg.is_lazy)
    IN  IF ~pq.ok THEN [ok |-> FALSE, value |-> cfg, what |-> pq.what]
        ELSE IF ~sq.ok THEN [ok |-> FALSE, value |-> cfg, what |-> sq.what]
        ELSE IF ~lazy.ok THEN [ok |-> FALSE, value |-> cfg, what |-> lazy.what]
        ELSE [ok |-> TRUE,
              value |-> [cfg EXCEPT !.publisher_queue_size = pq.value,
                                    !.subscriber_queue_size = sq.value,
                                    !.is_lazy = lazy.value],
              what |-> "none"]

(* What a call of parseEntry did: outcome "value" with the BridgeConfig,   *)
(* "nullopt" with the one line logged, or "throw" with the exception.      *)

Returned(cfg) == [outcome |-> "value", value |-> cfg, log |-> <<>>, what |-> "none"]

Nullopt(msg) == [outcome |-> "nullopt", value |-> DefaultBridgeConfig, log |-> <<msg>>, what |-> "none"]

Threw(what) == [outcome |-> "throw", value |-> DefaultBridgeConfig, log |-> <<>>, what |-> what]

parseEntry(node) ==
    LET valid == Validate(node)
        dir == ResolveDirection(node)
        topics == ResolveTopicNames(node)
        types == ReadTypeNames(node)
        ret0 == [DefaultBridgeConfig EXCEPT
                    !.direction = dir.direction,
                    !.gz_topic_name = topics.gz_topic_name,
                    !.ros_topic_name = topics.ros_topic_name,
                    !.gz_type_name = types.gz_type_name,
                    !.ros_type_name = types.ros_type_name]
        opt == ReadOptional(node, ret0)
    IN  IF valid # "ok" THEN Nullopt(valid)
        ELSE IF dir.outcome = "throw" THEN Threw(dir.what)
        ELSE IF dir.outcome = "nullopt" THEN Nullopt(MsgDirection)
        ELSE IF ~topics.ok THEN Threw(topics.what)
        ELSE IF ~types.ok THEN Threw(types.what)
        ELSE IF ~opt.ok THEN Threw(opt.what)
        ELSE Returned(opt.value)

-----------------------------------------------------------------------------
(* readFromYaml and its two adapters, bridge_config.cpp:134-170 *)

\* a document tree: the type of its top-level node and, for a container,
\* the nodes it iterates over
Doc(type, elems) == [type |-> type, elems |-> elems]

\* the default-constructed YAML::Node, and the document of an empty input
NullDoc == Doc("Null", <<>>)

\* what a file, a string or a stream holds: its YAML syntax is valid or not,
\* and the tree valid text stands for
Text(tree) == [syntax_ok |-> TRUE, tree |-> tree]

MalformedText == [syntax_ok |-> FALSE, tree |-> NullDoc]

\* std::ifstream in(filename): good only if the file could be opened
IfStream(content, opens) == [good |-> opens, content |-> content]

\* std::stringstream ss(data)
StringStream(content) == [good |-> TRUE, content |-> content]

NoStream == [good |-> FALSE, content |-> Text(NullDoc)]

\* YAML::Load(in): a stream that is not good yields no document, i.e. a Null
\* node; invalid syntax throws ParserException
Load(in) ==
    IF ~in.good THEN [ok |-> TRUE, node |-> NullDoc, what |-> "none"]
    ELSE IF ~in.content.syntax_ok THEN [ok |-> FALSE, node |-> NullDoc, what |-> "ParserException"]
    ELSE [ok |-> TRUE, node |-> in.content.tree, what |-> "none"]

MsgTopLevel == "Could not parse config, top level must be a YAML sequence"

\* readFromYamlFile(filename), lines 159-164
readFromYamlFile(opens) ==
    /\ pc = "idle"
    /\ entry_point' = "readFromYamlFile"
    /\ stream' = IfStream(source, opens)
    /\ pc' = "readFromYaml"
    /\ UNCHANGED <<source, yaml_node, it, ret, parsed, log, exception>>

\* readFromYamlString(data), lines 166-170
readFromYamlString ==
    /\ pc = "idle"
    /\ entry_point' = "readFromYamlString"
    /\ stream' = StringStream(source)
    /\ pc' = "readFromYaml"
    /\ UNCHANGED <<source, yaml_node, it, ret, parsed, log, exception>>

\* a caller's own call of readFromYaml(in) on a readable stream
readFromYamlStream ==
    /\ pc = "idle"
    /\ entry_point' = "readFromYaml"
    /\ stream' = StringStream(source)
    /\ pc' = "readFromYaml"
    /\ UNCHANGED <<source, yaml_node, it, ret, parsed, log, exception>>

\* readFromYaml, lines 136-147: load, and the test of the top level
readFromYaml_load ==
    /\ pc = "readFromYaml"
    /\ LET loaded == Load(stream) IN
       IF ~loaded.ok
       THEN /\ pc' = "thrown"
            /\ exception' = loaded.what
            /\ UNCHANGED <<yaml_node, log>>
       ELSE /\ yaml_node' = loaded.node
            /\ exception' = exception
            /\ IF ~IsSequence(loaded.node)
               THEN /\ log' = Append(log, MsgTopLevel)
                    /\ pc' = "returned"
               ELSE /\ log' = log
                    /\ pc' = "loop"
    /\ UNCHANGED <<source, entry_point, stream, it, ret, parsed>>

\* readFromYaml, lines 149-154: one turn of the loop
readFromYaml_loop ==
    /\ pc = "loop"
    /\ it <= Len(yaml_node.elems)
    /\ LET entry == parseEntry(yaml_node.elems[it]) IN
       /\ parsed' = Append(parsed, entry)
       /\ log' = log \o entry.log
       /\ IF entry.outcome = "throw"
          THEN /\ pc' = "thrown"
               /\ exception' = entry.what
               /\ UNCHANGED <<it, ret>>
          ELSE /\ ret' = IF entry.outcome = "value" THEN Append(ret, entry.value) ELSE ret
               /\ it' = it + 1
               /\ UNCHANGED <<pc, exception>>
    /\ UNCHANGED <<source, entry_point, stream, yaml_node>>

\* readFromYaml, line 156: the loop is over
readFromYaml_return ==
    /\ pc = "loop"
    /\ it > Len(yaml_node.elems)
    /\ pc' = "returned"
    /\ UNCHANGED <<source, entry_point, stream, yaml_node, it, ret, parsed, log, exception>>

-----------------------------------------------------------------------------
(* The inputs *)

MapNode(fields) == [type |-> "Map", scalar |-> "", at |-> fields]

\* an element of the sequence that is a plain scalar, not a map
ScalarEntry == [type |-> "Scalar", scalar |-> "x", at |-> <<>>]

Absent == {Undefined}

\* entries that cover the checks, the direction and the names of parseEntry
ValidationEntries ==
    {MapNode(f) : f \in
        [topic_name : {Undefined, Scalar(""), Scalar("/t"), NestedSequence},
         ros_topic_name : {Undefined, Scalar(""), Scalar("/r"), NestedSequence},
         gz_topic_name : {Undefined, Scalar(""), Scalar("/g"), NestedSequence},
         ros_type_name : {Undefined, Scalar("A"), NestedSequence},
         gz_type_name : {Undefined, Scalar("B"), NestedSequence},
         direction : {Undefined, Scalar("BIDIRECTIONAL"), Scalar("GZ_TO_ROS"),
                      Scalar("ROS_TO_GZ"), Scalar("gz_to_ros"), NestedSequence},
         publisher_queue : {Undefined, Scalar("-1")},
         subscriber_queue : Absent,
         lazy : {Undefined, Scalar("maybe")},
         publisher_queue_size : Absent,
         subscriber_queue_size : Absent]}

\* the texts a queue key carries: the numerals of the model, a negative
\* number and a word
QueueTexts == {Scalar(t) : t \in Numerals \cup {"-1", "abc"}}

\* entries that cover the optional members of parseEntry
OptionalEntries ==
    {MapNode(f) : f \in
        [topic_name : {Undefined, Scalar("/t")},
         ros_topic_name : Absent,
         gz_topic_name : {Undefined, Scalar("/g")},
         ros_type_name : {Scalar("A")},
         gz_type_name : {Scalar("B")},
         direction : {Undefined, Scalar("ROS_TO_GZ")},
         publisher_queue : {Undefined} \cup QueueTexts,
         subscriber_queue : {Undefined} \cup QueueTexts,
         lazy : {Undefined, Scalar("true"), Scalar("false"), Scalar("maybe")},
         publisher_queue_size : {Undefined, Scalar("0"), Scalar("1")},
         subscriber_queue_size : {Undefined, Scalar("1")}]}

\* the entries of the documents the loader is run on
LoaderEntries ==
    {ScalarEntry} \cup
    {MapNode(f) : f \in
        [topic_name : {Scalar("/a"), Scalar("/b")},
         ros_topic_name : Absent,
         gz_topic_name : Absent,
         ros_type_name : {Scalar("A")},
         gz_type_name : {Undefined, Scalar("B")},
         direction : Absent,
         publisher_queue : {Undefined, Scalar("-1")},
         subscriber_queue : Absent,
         lazy : Absent,
         publisher_queue_size : Absent,
         subscriber_queue_size : Absent]}

SeqsUpTo(S, n) == UNION {[1..k -> S] : k \in 0..n}

\* what the caller may hand in: a sequence or a map of entries, a scalar,
\* an empty text, a text that is not YAML
Sources ==
    {Text(Doc(t, s)) : t \in {"Sequence", "Map"}, s \in SeqsUpTo(LoaderEntries, MaxLen)}
    \cup {Text(Doc("Scalar", <<>>)), Text(NullDoc), MalformedText}

InitLocals ==
    /\ yaml_node = NullDoc
    /\ it = 1
    /\ ret = <<>>
    /\ parsed = <<>>
    /\ log = <<>>
    /\ exception = "none"

\* before the caller calls one of the three entry points
Init ==
    /\ source \in Sources
    /\ entry_point = "none"
    /\ stream = NoStream
    /\ pc = "idle"
    /\ InitLocals

\* readFromYaml called on a sequence of one entry
InitEntry ==
    /\ source \in {Text(Doc("Sequence", <<e>>)) :
                      e \in ValidationEntries \cup OptionalEntries \cup {ScalarEntry}}
    /\ entry_point = "readFromYaml"
    /\ stream = StringStream(source)
    /\ pc = "readFromYaml"
    /\ InitLocals

NextLoad ==
    \/ readFromYaml_load
    \/ readFromYaml_loop
    \/ readFromYaml_return

Next ==
    \/ \E opens \in BOOLEAN : readFromYamlFile(opens)
    \/ readFromYamlString
    \/ readFromYamlStream
    \/ NextLoad

Spec == Init /\ [][Next]_vars

SpecEntry == InitEntry /\ [][NextLoad]_vars

-----------------------------------------------------------------------------
(* Properties.  They read the input as it was written: which keys an       *)
(* element carries and the text of each, not what the parser made of them. *)

\* the elements parseEntry was called on so far
Visited == 1..Len(parsed)

Element(i) == yaml_node.elems[i]

\* the element is a map that carries the key
Carries(e, key) == e.type = "Map" /\ e.at[key].type # "Undefined"

\* the element carries the key with a plain text
CarriesText(e, key) == e.type = "Map" /\ e.at[key].type = "Scalar"

\* the text written under the key, the empty text where there is none
TextOf(e, key) == IF CarriesText(e, key) THEN e.at[key].scalar ELSE ""

TopicKeys == {"topic_name", "ros_topic_name", "gz_topic_name"}

DirectionTokens == {"BIDIRECTIONAL", "GZ_TO_ROS", "ROS_TO_GZ"}

\* topic_name together with one of the two domain-specific names
Conflict(e) ==
    Carries(e, "topic_name") /\ (Carries(e, "ros_topic_name") \/ Carries(e, "gz_topic_name"))

MissesType(e) == ~Carries(e, "ros_type_name") \/ ~Carries(e, "gz_type_name")

\* the first rule of the specification's order the element breaks, 0 if none
EarliestRule(e) ==
    IF e.type # "Map" THEN 1
    ELSE IF Carries(e, "topic_name") /\ Carries(e, "ros_topic_name") THEN 2
    ELSE IF Carries(e, "topic_name") /\ Carries(e, "gz_topic_name") THEN 3
    ELSE IF MissesType(e) THEN 4
    ELSE IF CarriesText(e, "direction") /\ TextOf(e, "direction") \notin DirectionTokens THEN 5
    ELSE 0

RuleMessage == <<MsgNotMap, MsgTopicRos, MsgTopicGz, MsgTypes, MsgDirection>>

\* the call is over, by a return or by an exception
Finished == pc \in {"returned", "thrown"}

Values(outcomes) == [i \in 1..Len(SelectSeq(outcomes, LAMBDA o : o.outcome = "value")) |->
                        SelectSeq(outcomes, LAMBDA o : o.outcome = "value")[i].value]

(* C1 (as claimed): on every document whose top level is a sequence        *)
(* readFromYaml returns, and returns the BridgeConfig of each element      *)
(* parseEntry accepts, in the order of the input, every other element      *)
(* removing only itself: as many results as valid elements.                *)
C1_ReturnsAcceptedInOrder ==
    (Finished /\ source.syntax_ok /\ stream.good /\ source.tree.type = "Sequence") =>
        /\ pc = "returned"
        /\ Len(parsed) = Len(source.tree.elems)
        /\ ret = Values(parsed)

(* C2 (as claimed): no fault of an entry leaves readFromYaml as an         *)
(* exception: the only exception is the parser's, on text that is not YAML. *)
C2_NoEntryException ==
    /\ exception \in {"none", "ParserException"}
    /\ \A i \in Visited : parsed[i].outcome \in {"value", "nullopt"}

(* C3 (as claimed): every BridgeConfig parseEntry returns has both topic   *)
(* names and both type names non-empty.                                    *)
C3_NeverEmpty ==
    \A i \in Visited : parsed[i].outcome = "value" =>
        /\ parsed[i].value.ros_topic_name # ""
        /\ parsed[i].value.gz_topic_name # ""
        /\ parsed[i].value.ros_type_name # ""
        /\ parsed[i].value.gz_type_name # ""

(* C3 (amended): every BridgeConfig parseEntry returns has each topic name *)
(* set to the text of a topic-name key the entry carries and each type     *)
(* name set to the text of the entry's type-name key, so a name is empty   *)
(* only where the entry writes the empty text; an entry that carries none  *)
(* of the three topic-name keys never yields a BridgeConfig.               *)
C3_PopulatedFromEntry ==
    \A i \in Visited : parsed[i].outcome = "value" =>
        /\ \E k \in TopicKeys : /\ CarriesText(Element(i), k)
                                /\ parsed[i].value.ros_topic_name = TextOf(Element(i), k)
        /\ \E k \in TopicKeys : /\ CarriesText(Element(i), k)
                                /\ parsed[i].value.gz_topic_name = TextOf(Element(i), k)
        /\ CarriesText(Element(i), "ros_type_name")
        /\ CarriesText(Element(i), "gz_type_name")
        /\ parsed[i].value.ros_type_name = TextOf(Element(i), "ros_type_name")
        /\ parsed[i].value.gz_type_name = TextOf(Element(i), "gz_type_name")

\* an entry that writes topic_name as the empty text is accepted, with both
\* topic names empty
C3_Witness ==
    \E i \in Visited :
        /\ CarriesText(Element(i), "topic_name")
        /\ TextOf(Element(i), "topic_name") = ""
        /\ parsed[i].outcome = "value"
        /\ parsed[i].value.ros_topic_name = ""
        /\ ret = <<parsed[i].value>>

(* C4: in every BridgeConfig parseEntry returns, when exactly one of the   *)
(* three topic-name keys is there both names are its text; when            *)
(* ros_topic_name and gz_topic_name are both there (and topic_name is not) *)
(* each name is the text of its own key; so the two names differ only in   *)
(* that last case.                                                         *)
C4_TopicNameTable ==
    \A i \in Visited : parsed[i].outcome = "value" =>
        LET e == Element(i)
            cfg == parsed[i].value
            there == {k \in TopicKeys : Carries(e, k)}
        IN  /\ \A k \in TopicKeys : there = {k} =>
                    cfg.ros_topic_name = TextOf(e, k) /\ cfg.gz_topic_name = TextOf(e, k)
            /\ there = {"ros_topic_name", "gz_topic_name"} =>
                    /\ cfg.ros_topic_name = TextOf(e, "ros_topic_name")
                    /\ cfg.gz_topic_name = TextOf(e, "gz_topic_name")
            /\ cfg.ros_topic_name # cfg.gz_topic_name =>
                    there = {"ros_topic_name", "gz_topic_name"}

\* both domain-specific names given, with different texts, each kept on its side
C4_Witness ==
    \E i \in Visited :
        /\ parsed[i].outcome = "value"
        /\ TextOf(Element(i), "ros_topic_name") = "/r"
        /\ TextOf(Element(i), "gz_topic_name") = "/g"
        /\ parsed[i].value.ros_topic_name = "/r"
        /\ parsed[i].value.gz_topic_name = "/g"
        /\ pc = "returned"

(* C5: an entry that carries topic_name together with ros_topic_name or    *)
(* gz_topic_name makes parseEntry return nullopt, whatever its other keys, *)
(* and adds nothing to the loader's result.                                *)
C5_ExclusiveTopicNames ==
    /\ \A i \in Visited : Conflict(Element(i)) => parsed[i].outcome = "nullopt"
    /\ Len(ret) <= Cardinality({i \in Visited : ~Conflict(Element(i))})

\* topic_name with gz_topic_name in an entry that is valid otherwise: dropped
C5_Witness ==
    \E i \in Visited :
        /\ Carries(Element(i), "topic_name")
        /\ Carries(Element(i), "gz_topic_name")
        /\ ~Carries(Element(i), "ros_topic_name")
        /\ ~MissesType(Element(i))
        /\ parsed[i].outcome = "nullopt"
        /\ pc = "returned"
        /\ ret = <<>>

(* C6: an entry that lacks ros_type_name or gz_type_name makes parseEntry  *)
(* return nullopt and adds nothing to the result; every BridgeConfig       *)
(* returned has each type name equal to the text of its own key.           *)
C6_TypeNames ==
    /\ \A i \in Visited : MissesType(Element(i)) => parsed[i].outcome = "nullopt"
    /\ Len(ret) <= Cardinality({i \in Visited : ~MissesType(Element(i))})
    /\ \A i \in Visited : parsed[i].outcome = "value" =>
            /\ parsed[i].value.ros_type_name = TextOf(Element(i), "ros_type_name")
            /\ parsed[i].value.gz_type_name = TextOf(Element(i), "gz_type_name")

\* only gz_type_name is missing: dropped
C6_Witness ==
    \E i \in Visited :
        /\ Carries(Element(i), "topic_name")
        /\ ~Conflict(Element(i))
        /\ Carries(Element(i), "ros_type_name")
        /\ ~Carries(Element(i), "gz_type_name")
        /\ parsed[i].outcome = "nullopt"
        /\ pc = "returned"
        /\ ret = <<>>

(* C7: a BridgeConfig returned for an entry without direction is           *)
(* BIDIRECTIONAL; one returned for an entry with direction has the enum    *)
(* value its text names, the text being exactly one of the three tokens;   *)
(* an entry that passes the four checks and whose direction is any other   *)
(* text is answered by nullopt, and no other value of direction yields a   *)
(* BridgeConfig.                                                           *)
C7_Direction ==
    \A i \in Visited :
        LET e == Element(i) IN
        /\ parsed[i].outcome = "value" =>
            /\ parsed[i].value.direction \in DirectionTokens
            /\ ~Carries(e, "direction") => parsed[i].value.direction = "BIDIRECTIONAL"
            /\ Carries(e, "direction") =>
                    /\ CarriesText(e, "direction")
                    /\ parsed[i].value.direction = TextOf(e, "direction")
        /\ EarliestRule(e) = 5 =>
            /\ parsed[i].outcome = "nullopt"
            /\ parsed[i].log = <<MsgDirection>>

\* the lower-case spelling of a token is refused
C7_Witness ==
    \E i \in Visited :
        /\ TextOf(Element(i), "direction") = "gz_to_ros"
        /\ EarliestRule(Element(i)) = 5
        /\ parsed[i].outcome = "nullopt"
        /\ pc = "returned"
        /\ ret = <<>>

(* C8: when the document loaded is not a sequence (a map, a scalar, the    *)
(* null document of an empty input or of a file that cannot be opened)     *)
(* readFromYaml returns the empty list without calling parseEntry, through *)
(* each of the three entry points.                                         *)
C8_NotASequence ==
    (/\ pc \notin {"idle", "readFromYaml"}
     /\ \/ ~stream.good
        \/ source.syntax_ok /\ source.tree.type # "Sequence") =>
        /\ pc = "returned"
        /\ ret = <<>>
        /\ parsed = <<>>
        /\ yaml_node.type # "Sequence"

\* a file that holds a sequence of entries but cannot be opened
C8_Witness ==
    /\ entry_point = "readFromYamlFile"
    /\ ~stream.good
    /\ source.tree.type = "Sequence"
    /\ Len(source.tree.elems) > 0
    /\ pc = "returned"
    /\ ret = <<>>
    /\ parsed = <<>>

\* the texts as<bool>() reads as true
TrueTexts == {"true", "yes", "on", "y"}

(* C9 (as claimed): in every BridgeConfig returned, the keys               *)
(* publisher_queue_size, subscriber_queue_size and lazy of the entry set   *)
(* the members publisher_queue_size, subscriber_queue_size and is_lazy.    *)
C9_SizeKeysSetQueues ==
    \A i \in Visited : parsed[i].outcome = "value" =>
        LET e == Element(i)
            cfg == parsed[i].value
        IN  /\ Carries(e, "publisher_queue_size") =>
                    ToString(cfg.publisher_queue_size) = TextOf(e, "publisher_queue_size")
            /\ Carries(e, "subscriber_queue_size") =>
                    ToString(cfg.subscriber_queue_size) = TextOf(e, "subscriber_queue_size")
            /\ Carries(e, "lazy") => (cfg.is_lazy <=> TextOf(e, "lazy") \in TrueTexts)

(* C9 (amended): in every BridgeConfig returned, the keys publisher_queue, *)
(* subscriber_queue and lazy of the entry set the members                  *)
(* publisher_queue_size, subscriber_queue_size and is_lazy to the values   *)
(* written, and a member whose key is absent keeps its default (is_lazy:   *)
(* false); each member depends on its own key alone.                       *)
C9_OptionalMembers ==
    \A i \in Visited : parsed[i].outcome = "value" =>
        LET e == Element(i)
            cfg == parsed[i].value
        IN  /\ Carries(e, "publisher_queue") =>
                    ToString(cfg.publisher_queue_size) = TextOf(e, "publisher_queue")
            /\ ~Carries(e, "publisher_queue") =>
                    cfg.publisher_queue_size = kDefaultPublisherQueue
            /\ Carries(e, "subscriber_queue") =>
                    ToString(cfg.subscriber_queue_size) = TextOf(e, "subscriber_queue")
            /\ ~Carries(e, "subscriber_queue") =>
                    cfg.subscriber_queue_size = kDefaultSubscriberQueue
            /\ Carries(e, "lazy") => (cfg.is_lazy <=> TextOf(e, "lazy") \in TrueTexts)
            /\ ~Carries(e, "lazy") => cfg.is_lazy = FALSE

\* publisher_queue and lazy written, subscriber_queue not: two members set,
\* the third at its default
C9_Witness ==
    \E i \in Visited :
        /\ TextOf(Element(i), "publisher_queue") = "1"
        /\ ~Carries(Element(i), "subscriber_queue")
        /\ TextOf(Element(i), "lazy") = "true"
        /\ parsed[i].outcome = "value"
        /\ parsed[i].value.publisher_queue_size = 1
        /\ parsed[i].value.subscriber_queue_size = kDefaultSubscriberQueue
        /\ parsed[i].value.is_lazy
        /\ pc = "returned"

====
